---- MODULE Spec2Model ----
(***************************************************************************)
(* autoCrack.py: an orchestrator that runs hashcat once per candidate      *)
(* mode on the hashes of a corpus that crack_log.json does not yet record  *)
(* for that mode, logs what each mode cracked, and removes the per-mode    *)
(* temporary files.                                                        *)
(*                                                                         *)
(* Text that the program splits or trims (corpus lines, hashes, cleartexts,*)
(* output lines of `hashcat --show`) is a sequence of one-character        *)
(* strings. Text it only compares or copies (mode ids, mode names) is a    *)
(* TLA+ string.                                                            *)
(***************************************************************************)
EXTENDS Integers, Sequences, FiniteSets, TLC

\* ------------------------------------------------------------------ bounds
\* Lines of the corpus file.
MaxCorpus == 2
\* Runs of the program in succession, the ledger untouched between them.
MaxRuns == 2

\* ------------------------------------------------------------ input universe
\* Lines of a corpus file, as written: two plain hashes, a salted hash
\* "<digest>:<salt>" with a trailing blank, and an indented comment.
LineSet == { <<"a">>, <<"b">>, <<"a", ":", "b", " ">>, <<" ", "#">> }

\* Words of a wordlist; the second one holds a colon.
WordSet == { <<"p">>, <<"p", ":", "q">> }

\* Lines of the enumeration output, each cut at its "|" separators.
Banner == <<"hashcat">>
Row0 == <<"0", "MD5", "Raw Hash">>
Row1 == <<"1", "SHA1", "Raw Hash">>
EnumOutputs ==
    { <<Banner>>, <<Banner, Row0>>, <<Row0, Row1>>, <<Row0, Row0>> }

Digits == { "0", "1" }

SeqUpTo(S, n) == UNION { [1..k -> S] : k \in 0..n }

Range(s) == { s[k] : k \in DOMAIN s }

\* ------------------------------------------------------------------- text
IsBlank(c) == c = " "

RECURSIVE LStrip(_)
LStrip(s) ==
    IF s # <<>> /\ IsBlank(Head(s)) THEN LStrip(Tail(s)) ELSE s

RECURSIVE RStrip(_)
RStrip(s) ==
    IF s # <<>> /\ IsBlank(s[Len(s)])
    THEN RStrip(SubSeq(s, 1, Len(s) - 1))
    ELSE s

\* str.strip()
Strip(s) == RStrip(LStrip(s))

\* str.startswith("#")
IsComment(s) == s # <<>> /\ Head(s) = "#"

\* Index of the first ":" of a line, 0 when it has none.
FirstColon(line) ==
    IF \E k \in DOMAIN line : line[k] = ":"
    THEN CHOOSE k \in DOMAIN line :
             /\ line[k] = ":"
             /\ \A n \in 1..(k - 1) : line[n] # ":"
    ELSE 0

\* line.split(":", 1) of a line that holds a colon
SplitLine(line) ==
    LET c == FirstColon(line)
    IN  << SubSeq(line, 1, c - 1), SubSeq(line, c + 1, Len(line)) >>

\* ---------------------------------------------------------- crack_log.json
FieldOrder == << "hash", "mode_id", "clear", "timestamp" >>

\* A JSON object is the sequence of its <<key, value>> members.
ObjToDict(obj) ==
    [ k \in { obj[n][1] : n \in DOMAIN obj } |->
        LET last == CHOOSE n \in DOMAIN obj :
                        /\ obj[n][1] = k
                        /\ \A n2 \in DOMAIN obj : obj[n2][1] = k => n2 <= n
        IN  obj[last][2] ]

DictToObj(d) ==
    LET keys == SelectSeq(FieldOrder, LAMBDA f : f \in DOMAIN d)
    IN  [ n \in DOMAIN keys |-> << keys[n], d[keys[n]] >> ]

\* Mutant: only the newest entry is written.
json_dump_LastOnly(items) ==
    [ type |-> "array",
      items |-> IF items = <<>> THEN <<>>
                ELSE << DictToObj(items[Len(items)]) >> ]

\* json.dump(entries_list, f) on a list of dicts
json_dump(items) ==
    [ type |-> "array", items |-> [ n \in DOMAIN items |-> DictToObj(items[n]) ] ]

\* json.load(f): the value read. A file that is no JSON raises instead.
JsonRaises(file) == file.type = "invalid"

json_load(file) ==
    IF file.type = "array"
    THEN [ type |-> "list",
           items |-> [ n \in DOMAIN file.items |-> ObjToDict(file.items[n]) ] ]
    ELSE [ type |-> "dict", items |-> <<>> ]

EmptyLog == [ seen |-> {}, data |-> [ type |-> "list", items |-> <<>> ] ]

HasKey(d) == "hash" \in DOMAIN d /\ "mode_id" \in DOMAIN d

KeyOf(d) == << d["hash"], d["mode_id"] >>

KeysOf(items) == { KeyOf(items[n]) : n \in DOMAIN items }

\* Mutant: a record without "hash" or "mode_id" is passed over instead of
\* making the load fall back to the empty log.
load_log_entries_SkipBad(file) ==
    IF file.type = "absent" \/ JsonRaises(file)
    THEN EmptyLog
    ELSE LET data == json_load(file)
             good == SelectSeq(data.items, HasKey)
         IN  IF data.type = "dict"
             THEN [ seen |-> {}, data |-> data ]
             ELSE [ seen |-> KeysOf(good),
                    data |-> [ type |-> "list", items |-> good ] ]

load_log_entries(file) ==
    IF file.type = "absent" \/ JsonRaises(file)
    THEN EmptyLog
    ELSE LET data == json_load(file)
         IN  IF data.type = "dict"
             THEN \* iterating {} yields nothing; the dict itself is returned
                  [ seen |-> {}, data |-> data ]
             ELSE IF \E n \in DOMAIN data.items : ~HasKey(data.items[n])
             THEN EmptyLog
             ELSE [ seen |-> KeysOf(data.items), data |-> data ]

\* entries_list.append(entry) raises when the loaded value is no list.
AppendRaises(entries_list) == entries_list.type # "list"

\* Mutant: the file is written before the entry joins the list.
append_log_WriteFirst(entries_list, entry) ==
    [ list |-> [ type |-> "list", items |-> Append(entries_list.items, entry) ],
      file |-> json_dump(entries_list.items) ]

\* append_log: the list after entries_list.append(entry), and the file that
\* json.dump(entries_list, f) leaves.
append_log(entries_list, entry) ==
    LET grown == [ type |-> "list", items |-> Append(entries_list.items, entry) ]
    IN  [ list |-> grown, file |-> json_dump(grown.items) ]

\* ------------------------------------------------------------------ corpus
get_all_hashes(lines) ==
    LET stripped == [ n \in DOMAIN lines |-> Strip(lines[n]) ]
    IN  SelectSeq(stripped, LAMBDA h : h # <<>> /\ ~IsComment(h))

\* ------------------------------------------------------------- enumeration
RowMatches(line) ==
    /\ Len(line) >= 3
    /\ line[1] \in Digits
    /\ line[2] # ""
    /\ line[3] # ""

get_candidate_modes(stdout) ==
    LET rows == SelectSeq(stdout, RowMatches)
    IN  [ n \in DOMAIN rows |-> << rows[n][1], rows[n][2] >> ]

\* ------------------------------------------------------------ pending set
\* Mutant: a hash logged under any mode is left out for every mode.
PendingOf_AnyMode(hashes, mode_id, seen) ==
    SelectSeq(hashes, LAMBDA h : \A k \in seen : k[1] # h)

\* Mutant: the ledger is not consulted.
PendingOf_NoFilter(hashes, mode_id, seen) == hashes

\* Mutant: the test is inverted, the hashes already logged for the mode are
\* the ones attacked.
PendingOf_Inverted(hashes, mode_id, seen) ==
    SelectSeq(hashes, LAMBDA h : << h, mode_id >> \in seen)

PendingOf(hashes, mode_id, seen) ==
    SelectSeq(hashes, LAMBDA h : << h, mode_id >> \notin seen)

\* ---------------------------------------------------------- external tool
\* hashcat is a collaborator: what it answers is drawn from what its
\* command-line contract allows.
RECURSIVE DistinctInOrder(_)
DistinctInOrder(s) ==
    IF s = <<>> THEN <<>>
    ELSE LET rest == DistinctInOrder(SubSeq(s, 1, Len(s) - 1))
             last == s[Len(s)]
         IN  IF last \in Range(rest) THEN rest ELSE Append(rest, last)

IsPrefix(p, s) == Len(p) <= Len(s) /\ SubSeq(s, 1, Len(p)) = p

\* Attack call: the potfile lines "<hash>:<plain>" written for the hashes of
\* the subset file that `word` cracks.
AttackPot(subset, crackedSet, word) ==
    LET hit == SelectSeq(DistinctInOrder(subset), LAMBDA h : h \in crackedSet)
    IN  [ n \in DOMAIN hit |-> hit[n] \o <<":">> \o word ]

\* Attack call: exit status 0 iff at least one hash was cracked.
AttackStatus(crackedSet) == IF crackedSet # {} THEN 0 ELSE 1

\* Show call: the potfile lines of the hashes of the subset file.
ShowStdout(subset, pot) ==
    SelectSeq(pot, LAMBDA l : \E h \in Range(subset) : IsPrefix(h \o <<":">>, l))

\* ------------------------------------------------------------------ state
VARIABLES
    argc,             \* len(sys.argv)
    hash_file,        \* the corpus file: [exists, lines]
    wordlist,         \* the wordlist file: [exists, words]
    hashcat_in_path,  \* whether the hashcat binary can be started
    enum_stdout,      \* what `hashcat --show <hash_file>` prints
    log_file,         \* crack_log.json: [type, items]
    fs,               \* the temporary files that exist
    next_tmp,         \* the next fresh temporary-file name
    clock,            \* datetime.now(), as a logical clock
    run,              \* the number of the run in progress
    log_at_start,     \* crack_log.json as it was when this run started
    pc,               \* position in main()
    exit_code,        \* the process exit status, -1 while running
    fatal,            \* why the process exited
    already_cracked,  \* main: set of (hash, mode_id)
    log_entries,      \* main: the loaded ledger value
    candidates,       \* main: list of (mode_id, mode_name)
    all_hashes,       \* main
    cracked_summary,  \* main: list of (mode_id, mode_name, pairs)
    mode_idx,         \* position of the for loop over candidates
    pending,          \* main
    subset_file,      \* main: name of the subset file, 0 before the first
    tmp_pot_path,     \* main: name of the potfile, 0 before the first
    cracked,          \* main
    show_stdout,      \* extract_cracked_from_pot: lines of show_proc.stdout
    pairs,            \* main
    pair_idx,         \* position of the for loop over pairs
    calls             \* the hashcat invocations of this run, in order: the
                      \* exit status of each and, in "out", the potfile
                      \* lines an attack wrote or the pairs read from a
                      \* show call

inputs == << argc, hash_file, wordlist, hashcat_in_path, enum_stdout >>
world == << log_file, fs, next_tmp, clock, run, log_at_start >>
control == << pc, exit_code, fatal >>
ledger == << already_cracked, log_entries >>
locals == << candidates, all_hashes, cracked_summary, mode_idx, pending,
             subset_file, tmp_pot_path, cracked, show_stdout, pairs,
             pair_idx >>
vars == << inputs, world, control, ledger, locals, calls >>

\* ------------------------------------------------------------------ Init
AbsentFile == [ type |-> "absent", items |-> <<>> ]
GarbageFile == [ type |-> "invalid", items |-> <<>> ]
EmptyObjectFile == [ type |-> "object", items |-> <<>> ]

\* A well-formed record of the ledger, one that lacks "hash" and one that
\* lacks "mode_id".
GoodRec ==
    << <<"hash", <<"a">>>>, <<"mode_id", "0">>, <<"clear", <<"p">>>>,
       <<"timestamp", 0>> >>
BadRec == << <<"mode_id", "0">>, <<"clear", <<"p">>>>, <<"timestamp", 0>> >>
NoModeRec == << <<"hash", <<"a">>>>, <<"clear", <<"p">>>>, <<"timestamp", 0>> >>

\* crack_log.json as the first run may find it.
LedgerFiles ==
    { AbsentFile, GarbageFile, EmptyObjectFile }
    \cup { [ type |-> "array", items |-> s ] :
             s \in { <<>>, <<GoodRec>>, <<BadRec>>, <<GoodRec, NoModeRec>>,
                     <<GoodRec, GoodRec>> } }

HashFiles ==
    { [ exists |-> FALSE, lines |-> <<>> ] }
    \cup { [ exists |-> TRUE, lines |-> s ] : s \in SeqUpTo(LineSet, MaxCorpus) }

Wordlists ==
    { [ exists |-> FALSE, words |-> <<>> ], [ exists |-> TRUE, words |-> <<>> ] }
    \cup { [ exists |-> TRUE, words |-> <<w>> ] : w \in WordSet }

StartOfProcess ==
    /\ pc = "validate_args"
    /\ exit_code = -1
    /\ fatal = "none"
    /\ already_cracked = {}
    /\ log_entries = EmptyLog.data
    /\ candidates = <<>>
    /\ all_hashes = <<>>
    /\ cracked_summary = <<>>
    /\ mode_idx = 0
    /\ pending = <<>>
    /\ subset_file = 0
    /\ tmp_pot_path = 0
    /\ cracked = FALSE
    /\ show_stdout = <<>>
    /\ pairs = <<>>
    /\ pair_idx = 0
    /\ calls = <<>>

Init ==
    /\ argc \in { 2, 3 }
    /\ hash_file \in HashFiles
    /\ wordlist \in Wordlists
    /\ hashcat_in_path \in BOOLEAN
    /\ enum_stdout \in EnumOutputs
    /\ log_file \in LedgerFiles
    /\ fs = {}
    /\ next_tmp = 1
    /\ clock = 1
    /\ run = 1
    /\ log_at_start = log_file
    /\ StartOfProcess

\* ---------------------------------------------------------------- actions
\* sys.exit(code), or the interpreter ending on an uncaught exception.
Exit(code, why) ==
    /\ pc' = "exited"
    /\ exit_code' = code
    /\ fatal' = why

ValidateArgs ==
    /\ pc = "validate_args"
    /\ IF argc # 3
       THEN Exit(1, "usage")
       ELSE IF ~hash_file.exists \/ hash_file.lines = <<>>
       THEN Exit(1, "hash_file")
       ELSE IF ~wordlist.exists \/ wordlist.words = <<>>
       THEN Exit(1, "wordlist")
       ELSE pc' = "load_log" /\ UNCHANGED << exit_code, fatal >>
    /\ UNCHANGED << inputs, world, ledger, locals, calls >>

LoadLog ==
    /\ pc = "load_log"
    /\ already_cracked' = load_log_entries(log_file).seen
    /\ log_entries' = load_log_entries(log_file).data
    /\ pc' = "enumerate"
    /\ UNCHANGED << inputs, world, exit_code, fatal, locals, calls >>

Enumerate ==
    /\ pc = "enumerate"
    /\ IF ~hashcat_in_path
       THEN /\ Exit(1, "no_hashcat")
            /\ UNCHANGED << candidates, calls >>
       ELSE /\ calls' = Append(calls, [ op |-> "enumerate", mode |-> "",
                                        subset |-> 0, pot |-> 0, rc |-> 0,
                                        out |-> <<>> ])
            /\ candidates' = get_candidate_modes(enum_stdout)
            /\ IF candidates' = <<>>
               THEN Exit(1, "no_modes")
               ELSE pc' = "read_hashes" /\ UNCHANGED << exit_code, fatal >>
    /\ UNCHANGED << inputs, world, ledger, all_hashes, cracked_summary,
                    mode_idx, pending, subset_file, tmp_pot_path, cracked,
                    show_stdout, pairs, pair_idx >>

ReadHashes ==
    /\ pc = "read_hashes"
    /\ all_hashes' = get_all_hashes(hash_file.lines)
    /\ cracked_summary' = <<>>
    /\ mode_idx' = 1
    /\ pc' = "loop"
    /\ UNCHANGED << inputs, world, exit_code, fatal, ledger, candidates,
                    pending, subset_file, tmp_pot_path, cracked,
                    show_stdout, pairs, pair_idx, calls >>

mode_id == candidates[mode_idx][1]
mode_name == candidates[mode_idx][2]

\* The for loop has run out of candidates.
LoopDone ==
    /\ pc = "loop"
    /\ mode_idx > Len(candidates)
    /\ pc' = "summary"
    /\ UNCHANGED << inputs, world, exit_code, fatal, ledger, locals, calls >>

\* if not pending: continue
ModeSkip ==
    /\ pc = "loop"
    /\ mode_idx <= Len(candidates)
    /\ pending' = PendingOf(all_hashes, mode_id, already_cracked)
    /\ pending' = <<>>
    /\ mode_idx' = mode_idx + 1
    /\ UNCHANGED << inputs, world, control, ledger, candidates, all_hashes,
                    cracked_summary, subset_file, tmp_pot_path, cracked,
                    show_stdout, pairs, pair_idx, calls >>

\* Mutant: every mode uses the same potfile name.
PotName_Shared(subset) == 0

\* The name tempfile gives the potfile: one no file has had.
PotName(subset) == subset + 1

TmpFile(id, prefix, content) ==
    [ id |-> id, prefix |-> prefix, run |-> run, content |-> content ]

\* The subset file is written and an empty potfile is created.
ModePrepare ==
    /\ pc = "loop"
    /\ mode_idx <= Len(candidates)
    /\ pending' = PendingOf(all_hashes, mode_id, already_cracked)
    /\ pending' # <<>>
    /\ subset_file' = next_tmp
    /\ tmp_pot_path' = PotName(next_tmp)
    /\ next_tmp' = next_tmp + 2
    /\ fs' = fs \cup { TmpFile(subset_file', "hc_subset_", pending'),
                       TmpFile(tmp_pot_path', "hc_pot_", <<>>) }
    /\ pc' = "attack"
    /\ UNCHANGED << inputs, log_file, clock, run, log_at_start, exit_code,
                    fatal, ledger, candidates, all_hashes, cracked_summary,
                    mode_idx, cracked, show_stdout, pairs, pair_idx, calls >>

FileOf(id) == CHOOSE f \in fs : f.id = id

WriteFile(id, content) ==
    { IF f.id = id THEN [ f EXCEPT !.content = content ] ELSE f : f \in fs }

\* Mutant: every attack is taken to have cracked something.
Succeeded_Always(returncode) == TRUE

\* return (proc.returncode == 0)
Succeeded(returncode) == returncode = 0

\* run_hashcat_with_pot
RunAttack ==
    /\ pc = "attack"
    /\ \E crackedSet \in SUBSET Range(FileOf(subset_file).content),
          word \in Range(wordlist.words) :
         /\ fs' = WriteFile(tmp_pot_path,
                            AttackPot(FileOf(subset_file).content, crackedSet, word))
         /\ calls' = Append(calls, [ op |-> "attack", mode |-> mode_id,
                                     subset |-> subset_file,
                                     pot |-> tmp_pot_path,
                                     rc |-> AttackStatus(crackedSet),
                                     out |-> AttackPot(FileOf(subset_file).content,
                                                      crackedSet, word) ])
         /\ cracked' = Succeeded(AttackStatus(crackedSet))
    /\ pc' = IF cracked' THEN "extract" ELSE "cleanup"
    /\ UNCHANGED << inputs, log_file, next_tmp, clock, run, log_at_start,
                    exit_code, fatal, ledger, candidates, all_hashes,
                    cracked_summary, mode_idx, pending, subset_file,
                    tmp_pot_path, show_stdout, pairs, pair_idx >>

\* show_proc.stdout.strip().splitlines(): the blank lines before the first
\* and after the last line that holds text go, as do the blanks that lead
\* the first and trail the last such line; the lines between stay as they
\* are.
StripOutput(lines) ==
    LET text == { n \in DOMAIN lines : Strip(lines[n]) # <<>> }
        first == CHOOSE n \in text : \A k \in text : n <= k
        last == CHOOSE n \in text : \A k \in text : k <= n
    IN  IF text = {} THEN <<>>
        ELSE [ n \in 1..(last - first + 1) |->
                 LET k == first + n - 1
                 IN  IF k = first /\ k = last THEN Strip(lines[k])
                     ELSE IF k = first THEN LStrip(lines[k])
                     ELSE IF k = last THEN RStrip(lines[k])
                     ELSE lines[k] ]

PairsOf(stdout) ==
    LET lines == SelectSeq(StripOutput(stdout), LAMBDA l : FirstColon(l) # 0)
    IN  [ n \in DOMAIN lines |-> SplitLine(lines[n]) ]

\* extract_cracked_from_pot
Extract ==
    /\ pc = "extract"
    /\ show_stdout' = ShowStdout(FileOf(subset_file).content,
                                 FileOf(tmp_pot_path).content)
    /\ pairs' = PairsOf(show_stdout')
    /\ calls' = Append(calls, [ op |-> "show", mode |-> mode_id,
                                subset |-> subset_file, pot |-> tmp_pot_path,
                                rc |-> 0, out |-> pairs' ])
    /\ pair_idx' = 1
    /\ pc' = "log"
    /\ UNCHANGED << inputs, world, exit_code, fatal, ledger, candidates,
                    all_hashes, cracked_summary, mode_idx, pending,
                    subset_file, tmp_pot_path, cracked >>

EntryOf(pair) ==
    [ hash |-> pair[1], mode_id |-> mode_id, clear |-> pair[2],
      timestamp |-> clock ]

SummaryAdd(summary, id, name, ps) == Append(summary, << id, name, ps >>)

\* One turn of `for h, clear in pairs`.
LogPair ==
    /\ pc = "log"
    /\ pair_idx <= Len(pairs)
    /\ IF AppendRaises(log_entries)
       THEN /\ Exit(1, "traceback")
            /\ UNCHANGED << log_file, clock, log_entries, cracked_summary,
                            pair_idx >>
       ELSE /\ log_entries' =
                   append_log(log_entries, EntryOf(pairs[pair_idx])).list
            /\ log_file' =
                   append_log(log_entries, EntryOf(pairs[pair_idx])).file
            /\ clock' = clock + 1
            /\ cracked_summary' =
                   SummaryAdd(cracked_summary, mode_id, mode_name, pairs)
            /\ pair_idx' = pair_idx + 1
            /\ UNCHANGED control
    /\ UNCHANGED << inputs, fs, next_tmp, run, log_at_start, already_cracked,
                    candidates, all_hashes, mode_idx, pending, subset_file,
                    tmp_pot_path, cracked, show_stdout, pairs, calls >>

LogDone ==
    /\ pc = "log"
    /\ pair_idx > Len(pairs)
    /\ pc' = "cleanup"
    /\ UNCHANGED << inputs, world, exit_code, fatal, ledger, locals, calls >>

\* Mutant: only the potfile is removed.
Removed_PotOnly(files, ids) ==
    { f \in files : f.id \notin ids \/ f.prefix = "hc_subset_" }

\* os.remove(tmp_pot_path); os.remove(subset_file)
Removed(files, ids) == { f \in files : f.id \notin ids }

Cleanup ==
    /\ pc = "cleanup"
    /\ fs' = Removed(fs, { tmp_pot_path, subset_file })
    /\ mode_idx' = mode_idx + 1
    /\ pc' = "loop"
    /\ UNCHANGED << inputs, log_file, next_tmp, clock, run, log_at_start,
                    exit_code, fatal, ledger, candidates, all_hashes,
                    cracked_summary, pending, subset_file, tmp_pot_path,
                    cracked, show_stdout, pairs, pair_idx, calls >>

\* The final summary is printed; both branches end in sys.exit(0).
Summary ==
    /\ pc = "summary"
    /\ Exit(0, "none")
    /\ UNCHANGED << inputs, world, ledger, locals, calls >>

\* The program is started again on the same inputs and the ledger it left.
Rerun ==
    /\ pc = "exited"
    /\ run < MaxRuns
    /\ run' = run + 1
    /\ log_at_start' = log_file
    /\ pc' = "validate_args"
    /\ exit_code' = -1
    /\ fatal' = "none"
    /\ already_cracked' = {}
    /\ log_entries' = EmptyLog.data
    /\ candidates' = <<>>
    /\ all_hashes' = <<>>
    /\ cracked_summary' = <<>>
    /\ mode_idx' = 0
    /\ pending' = <<>>
    /\ subset_file' = 0
    /\ tmp_pot_path' = 0
    /\ cracked' = FALSE
    /\ show_stdout' = <<>>
    /\ pairs' = <<>>
    /\ pair_idx' = 0
    /\ calls' = <<>>
    /\ UNCHANGED << inputs, log_file, fs, next_tmp, clock >>

Next ==
    \/ ValidateArgs
    \/ LoadLog
    \/ Enumerate
    \/ ReadHashes
    \/ LoopDone
    \/ ModeSkip
    \/ ModePrepare
    \/ RunAttack
    \/ Extract
    \/ LogPair
    \/ LogDone
    \/ Cleanup
    \/ Summary
    \/ Rerun

Spec == Init /\ [][Next]_vars

\* ----------------------------------------------------------------- claims
\* What the run read from crack_log.json when it started.
LoadedAtStart == load_log_entries(log_at_start)

\* The run has loaded the ledger.
Loaded == pc \notin { "validate_args", "load_log" }

\* The entries this run has appended to the list it loaded.
AppendedInRun ==
    SubSeq(log_entries.items, Len(LoadedAtStart.data.items) + 1,
           Len(log_entries.items))

\* The inputs fail a check of validate_args, or the enumeration fails.
InputInvalid ==
    \/ argc # 3
    \/ ~hash_file.exists \/ hash_file.lines = <<>>
    \/ ~wordlist.exists \/ wordlist.words = <<>>
    \/ ~hashcat_in_path
    \/ get_candidate_modes(enum_stdout) = <<>>

\* C1: a run that follows another one, the ledger untouched in between,
\* appends no entry whose (hash, mode_id) key the ledger already held when
\* the earlier run finished.
C1_Idempotence ==
    (run >= 2 /\ Loaded) =>
        \A n \in DOMAIN AppendedInRun :
            KeyOf(AppendedInRun[n]) \notin LoadedAtStart.seen

\* p is the subsequence of H, in order and with repeated lines kept, of the
\* elements that keep(_) accepts.
IsFilterOf(p, H, keep(_)) ==
    LET idx == { n \in DOMAIN H : keep(H[n]) }
    IN  /\ Len(p) = Cardinality(idx)
        /\ \A n \in idx : p[Cardinality({ k \in idx : k <= n })] = H[n]

OwnTmp == { f \in fs : f.run = run }

\* C3: when a mode has been processed (skipped, failed, or cracked and
\* logged) neither its subset file nor its potfile exists any more: at the
\* loop head, at the final summary and after it no temporary file of the run
\* exists.
C3_Cleanup ==
    (pc \in { "loop", "summary" } \/ (pc = "exited" /\ exit_code = 0)) =>
        OwnTmp = {}

\* A mode that cracked and logged a hash has been left.
C3_Witness ==
    /\ pc = "loop"
    /\ mode_idx = 2
    /\ cracked
    /\ AppendedInRun # <<>>
    /\ subset_file # 0

\* C4: every hash of a pair the extractor returns for a mode, and so every
\* hash logged for it, is an element of the pending set written to that
\* mode's subset file.
C4_ExtractionSubset ==
    pc = "log" => \A n \in DOMAIN pairs : pairs[n][1] \in Range(pending)

\* C5: once append_log has written crack_log.json, loading the file gives
\* back the entry list that was persisted, and a key set equal to the set of
\* (hash, mode_id) keys of those entries.
C5_RoundTrip ==
    (Loaded /\ log_file # log_at_start) =>
        LET back == load_log_entries(log_file)
        IN  /\ back.data = log_entries
            /\ back.seen = KeysOf(log_entries.items)

\* A ledger of a loaded entry and an appended one whose cleartext holds a
\* colon has been written.
C5_Witness ==
    /\ Loaded
    /\ log_file # log_at_start
    /\ LoadedAtStart.data.items # <<>>
    /\ \E n \in DOMAIN AppendedInRun : FirstColon(AppendedInRun[n].clear) # 0

\* C6: in every state of a run, the membership set of (hash, mode_id) keys
\* equals the set of keys of the entries of the ledger sequence.
C6_KeysConsistent ==
    Loaded => already_cracked = KeysOf(log_entries.items)

\* C7: the process exits with 1 exactly when an input check or the
\* enumeration fails, and otherwise exits with 0 after the last mode.
C7_ExitCodes ==
    pc = "exited" =>
        /\ exit_code \in { 0, 1 }
        /\ exit_code = 1 <=> InputInvalid
        /\ exit_code = 0 => mode_idx > Len(candidates)

\* The show calls of this run that returned at least one pair.
CrackingShows == SelectSeq(calls, LAMBDA c : c.op = "show" /\ c.out # <<>>)

\* C8: at the final summary, each mode that cracked something in this run
\* has exactly one summary entry, which lists the pairs extracted for it, and
\* every summary entry is that of such a mode.
C8_Summary ==
    pc = "summary" =>
        /\ \A k \in DOMAIN CrackingShows :
             /\ Cardinality({ n \in DOMAIN cracked_summary :
                    cracked_summary[n][1] = CrackingShows[k].mode }) = 1
             /\ \A n \in DOMAIN cracked_summary :
                    cracked_summary[n][1] = CrackingShows[k].mode
                        => cracked_summary[n][3] = CrackingShows[k].out
        /\ \A n \in DOMAIN cracked_summary :
             \E k \in DOMAIN CrackingShows :
                 cracked_summary[n][1] = CrackingShows[k].mode

\* Every hash of the corpus has a key for the mode at the loop head in the
\* ledger the run loaded.
AllLogged ==
    \A n \in DOMAIN all_hashes :
        << all_hashes[n], mode_id >> \in LoadedAtStart.seen

CorruptOrAbsent(file) ==
    \/ file.type \in { "absent", "invalid" }
    \/ /\ file.type = "array"
       /\ \E n \in DOMAIN file.items :
              \/ \A k \in DOMAIN file.items[n] : file.items[n][k][1] # "hash"
              \/ \A k \in DOMAIN file.items[n] : file.items[n][k][1] # "mode_id"

\* C10: with such a ledger file at startup, loading yields the empty key set
\* and the empty entry list, the run does not end because of it, and every
\* hash of the corpus is pending for every mode.
C10_CorruptLedger ==
    (CorruptOrAbsent(log_at_start) /\ Loaded) =>
        /\ already_cracked = {}
        /\ log_entries.type = "list"
        /\ pc = "enumerate" => log_entries.items = <<>>
        /\ pc = "exited" => (exit_code = 1 <=> InputInvalid)
        /\ pc \in { "attack", "extract", "log", "cleanup" } =>
               pending = all_hashes

\* A mode is attacked on the whole corpus after a ledger with a well-formed
\* record and one without "mode_id" was loaded.
C10_Witness ==
    /\ log_at_start.type = "array"
    /\ Len(log_at_start.items) = 2
    /\ CorruptOrAbsent(log_at_start)
    /\ pc = "attack"
    /\ mode_idx = 2
    /\ Len(pending) = 2

\* C11: once a mode's subset file and potfile exist, they are removed
\* before the program leaves that mode, also when the attack, the show
\* call or the write of the ledger raises: a process that has ended has left
\* none of its temporary files behind.
C11_ReleaseOnError == pc = "exited" => OwnTmp = {}

\* The entries crack_log.json holds: the records of its array that carry a
\* "hash" and a "mode_id".
PersistedEntries(file) ==
    IF file.type = "array"
    THEN SelectSeq([ n \in DOMAIN file.items |-> ObjToDict(file.items[n]) ],
                   HasKey)
    ELSE <<>>

\* C12: the persisted ledger only grows: no step removes, edits or moves an
\* entry that crack_log.json holds, so the entries of the file before a step
\* are a prefix of its entries after the step.
C12_AppendOnly ==
    [][ IsPrefix(PersistedEntries(log_file), PersistedEntries(log_file')) ]_vars

Last(s) == s[Len(s)]

\* C13: within a run, a show call is made only right after the attack call
\* of the same mode, on the same subset file and potfile, has returned 0; and
\* the ledger (list or file) changes only when the last call is the show
\* call of the mode being processed, made after that mode's attack returned
\* 0, and the entry added carries that mode and a pair the show call gave.
\* A mode that was skipped, or whose attack returned non-zero, has no show
\* call and so gets no entry.
C13_ProtocolOrder ==
    [][ (Loaded /\ run' = run) =>
          /\ (Len(calls') > Len(calls) /\ Last(calls').op = "show") =>
                /\ calls # <<>>
                /\ Last(calls).op = "attack"
                /\ Last(calls).rc = 0
                /\ Last(calls).mode = Last(calls').mode
                /\ Last(calls).subset = Last(calls').subset
                /\ Last(calls).pot = Last(calls').pot
          /\ (log_entries' # log_entries \/ log_file' # log_file) =>
                /\ calls' = calls
                /\ Len(calls) >= 2
                /\ Last(calls).op = "show"
                /\ Last(calls).subset = subset_file
                /\ Last(calls).pot = tmp_pot_path
                /\ calls[Len(calls) - 1].op = "attack"
                /\ calls[Len(calls) - 1].rc = 0
                /\ log_entries'.items # <<>>
                /\ Last(log_entries'.items).mode_id = Last(calls).mode
                /\ << Last(log_entries'.items).hash,
                      Last(log_entries'.items).clear >> \in Range(Last(calls).out)
      ]_vars

\* The first mode's attack failed, the second mode's attack succeeded, and
\* the first pair its show call gave has been logged.
C13_Witness ==
    /\ pc = "log"
    /\ pair_idx = 2
    /\ Len(calls) = 4
    /\ calls[2].op = "attack" /\ calls[2].rc # 0
    /\ calls[3].op = "attack" /\ calls[3].rc = 0
    /\ calls[4].op = "show"
    /\ AppendedInRun # <<>>

\* The attack call of the mode being processed has returned non-zero.
AttackFailed ==
    /\ pc = "cleanup"
    /\ calls # <<>>
    /\ Last(calls).op = "attack"
    /\ Last(calls).rc # 0

CallsIsolated ==
    /\ \A j, k \in DOMAIN calls :
         (calls[j].op = "attack" /\ calls[k].op = "attack" /\ j # k) =>
            calls[j].pot # calls[k].pot
    /\ \A k \in DOMAIN calls :
         calls[k].op = "show" =>
            /\ k > 1
            /\ calls[k - 1].op = "attack"
            /\ calls[k - 1].pot = calls[k].pot

\* The newest entry of the ledger list is a pair that a show call of its
\* mode gave, and its hash, ":" and cleartext are a line that the mode's own
\* attack wrote into the potfile the show call read.
NewestFromOwnPot ==
    LET e == Last(log_entries.items)
    IN  \E k \in DOMAIN calls :
           /\ calls[k].op = "show"
           /\ calls[k].mode = e.mode_id
           /\ << e.hash, e.clear >> \in Range(calls[k].out)
           /\ \E j \in DOMAIN calls :
                 /\ calls[j].op = "attack"
                 /\ calls[j].pot = calls[k].pot
                 /\ calls[j].mode = e.mode_id
                 /\ (e.hash \o <<":">> \o e.clear) \in Range(calls[j].out)

\* C15: every attempted mode gets a potfile that is newly created and empty
\* when the mode starts, and that no other mode's attack or show call uses;
\* so an entry (h, m) of the ledger was reported by the show call of mode m
\* on mode m's own potfile, and what one mode cracked is never logged under
\* another mode's id. The record of calls only grows during a run, and each
\* entry is looked at in the step that appends it.
C15_PotIsolation ==
    [][ /\ (pc = "loop" /\ pc' = "attack") =>
              /\ \A f \in fs : f.id # tmp_pot_path'
              /\ \E f \in fs' : /\ f.id = tmp_pot_path'
                                /\ f.prefix = "hc_pot_"
                                /\ f.content = <<>>
        /\ (Loaded /\ run' = run /\ calls' # calls) =>
              /\ IsPrefix(calls, calls')
              /\ CallsIsolated'
        /\ (Loaded /\ run' = run /\ log_entries' # log_entries) =>
              /\ Len(log_entries'.items) = Len(log_entries.items) + 1
              /\ NewestFromOwnPot'
      ]_vars

\* Two modes were attempted in one run, each cracked something, and the
\* ledger has gained an entry under each mode id.
C15_Witness ==
    /\ pc = "cleanup"
    /\ Len(calls) = 5
    /\ calls[3].op = "show" /\ calls[5].op = "show"
    /\ calls[3].mode # calls[5].mode
    /\ \E n \in DOMAIN AppendedInRun : AppendedInRun[n].mode_id = calls[3].mode
    /\ \E n \in DOMAIN AppendedInRun : AppendedInRun[n].mode_id = calls[5].mode

\* crack_log.json is an array that holds, record for record, the entries of
\* the in-memory list.
FileHoldsList ==
    /\ log_file.type = "array"
    /\ Len(log_file.items) = Len(log_entries.items)
    /\ \A n \in DOMAIN log_entries.items :
         ObjToDict(log_file.items[n]) = log_entries.items[n]

\* C16: an append is durable at once. The ledger list and crack_log.json
\* change only in the step that appends an entry to the list, and that step
\* leaves the file holding the whole list, the new entry last; so whatever
\* the process does next and wherever it stops, the file holds every entry
\* appended so far.
C16_DurableAppend ==
    [][ (Loaded /\ run' = run
           /\ (log_entries' # log_entries \/ log_file' # log_file)) =>
          /\ log_entries'.items =
                Append(log_entries.items, EntryOf(pairs[pair_idx]))
          /\ FileHoldsList'
          /\ ObjToDict(Last(log_file'.items)) = EntryOf(pairs[pair_idx])
      ]_vars

\* A run that loaded a ledger with entries has appended two entries in one
\* mode.
C16_Witness ==
    /\ pc = "log"
    /\ pair_idx = 3
    /\ LoadedAtStart.data.items # <<>>
    /\ Len(AppendedInRun) >= 2

\* The calls of one kind the run has made, in order.
CallsOf(op) == SelectSeq(calls, LAMBDA c : c.op = op)

\* The modes of the attack calls are those of candidates at increasing
\* positions, none beyond the one being processed.
AttacksInOrder ==
    LET A == CallsOf("attack")
    IN  \E f \in [ DOMAIN A -> DOMAIN candidates ] :
           /\ \A k \in DOMAIN A : /\ f[k] <= mode_idx
                                  /\ candidates[f[k]][1] = A[k].mode
           /\ \A j, k \in DOMAIN A : j < k => f[j] < f[k]

\* C17: every external call returning, a run takes the enumerated modes once
\* each and in enumeration order, with at most one attack call and one show
\* call per mode and no retry, and it ends by reaching the final summary: a
\* process whose inputs and enumeration are valid exits only from the
\* summary, with every mode behind it.
C17_NoRetryTerminates ==
    Loaded =>
       /\ AttacksInOrder
       /\ Len(CallsOf("show")) <= Len(CallsOf("attack"))
       /\ Len(CallsOf("attack")) <= Len(candidates)
       /\ (pc = "exited" /\ ~InputInvalid) =>
             /\ fatal = "none"
             /\ exit_code = 0
             /\ mode_idx = Len(candidates) + 1

\* -------------------------------------------- the extractor on its own
\* Lines that show_proc.stdout may hold: a plain pair, a cleartext with a
\* colon, a cleartext that ends in a blank, a line without a colon and an
\* empty line.
OutLineSet ==
    { <<"a", ":", "p">>, <<"a", ":", "p", ":", "q">>, <<"a", ":", "p", " ">>,
      <<"w">>, <<>> }

\* Lines of one show output.
MaxOutLines == 3

\* extract_cracked_from_pot has read the output of the show call.
InitExtract ==
    /\ argc = 3
    /\ hash_file = [ exists |-> TRUE, lines |-> << <<"a">> >> ]
    /\ wordlist = [ exists |-> TRUE, words |-> << <<"p">> >> ]
    /\ hashcat_in_path = TRUE
    /\ enum_stdout = << Row0 >>
    /\ log_file = AbsentFile
    /\ fs = {}
    /\ next_tmp = 1
    /\ clock = 1
    /\ run = 1
    /\ log_at_start = AbsentFile
    /\ pc = "parse"
    /\ exit_code = -1
    /\ fatal = "none"
    /\ already_cracked = {}
    /\ log_entries = EmptyLog.data
    /\ candidates = <<>>
    /\ all_hashes = <<>>
    /\ cracked_summary = <<>>
    /\ mode_idx = 0
    /\ pending = <<>>
    /\ subset_file = 0
    /\ tmp_pot_path = 0
    /\ cracked = TRUE
    /\ show_stdout \in SeqUpTo(OutLineSet, MaxOutLines)
    /\ pairs = <<>>
    /\ pair_idx = 0
    /\ calls = <<>>

\* The lines are stripped, split and collected.
ExtractParse ==
    /\ pc = "parse"
    /\ pairs' = PairsOf(show_stdout)
    /\ pc' = "parsed"
    /\ UNCHANGED << inputs, world, exit_code, fatal, ledger, candidates,
                    all_hashes, cracked_summary, mode_idx, pending,
                    subset_file, tmp_pot_path, cracked, show_stdout, pair_idx,
                    calls >>

NextExtract == ExtractParse

SpecExtract == InitExtract /\ [][NextExtract]_vars

HasColon(line) == \E k \in DOMAIN line : line[k] = ":"

\* C18: the extractor gives one pair per output line that holds a colon, in
\* output order, and skips the other lines; the hash of a pair holds no
\* colon, and hash, ":" and cleartext put together again are the line, so
\* the cleartext is all the text after the first colon.
C18_FirstColonSplit ==
    pc = "parsed" =>
       LET lines == SelectSeq(show_stdout, HasColon)
       IN  /\ Len(pairs) = Len(lines)
           /\ \A n \in DOMAIN pairs :
                 /\ ~HasColon(pairs[n][1])
                 /\ pairs[n][1] \o <<":">> \o pairs[n][2] = lines[n]

\* C19: within one run no two appended entries carry the same
\* (hash, mode_id) key.
C19_NoDuplicateKey ==
    Loaded =>
       \A j, k \in DOMAIN AppendedInRun :
          j # k => KeyOf(AppendedInRun[j]) # KeyOf(AppendedInRun[k])

\* C20: a run that ends with exit code 1 ends before any subset file or
\* potfile is created, before any attack call and before any write of the
\* ledger: it leaves no temporary file of its own, has made no attack or
\* show call, and crack_log.json is what it was when the run started.
C20_FatalBeforeEffects ==
    (pc = "exited" /\ exit_code = 1) =>
       /\ OwnTmp = {}
       /\ subset_file = 0
       /\ tmp_pot_path = 0
       /\ CallsOf("attack") = <<>>
       /\ CallsOf("show") = <<>>
       /\ log_file = log_at_start

====
